---- MODULE Spec2Model ----
(***************************************************************************)
(* Model of the console assistant bot of home_work_3.py: the Field /      *)
(* Record / AddressBook classes, the command handlers wrapped by           *)
(* input_error, parse_input and the command loop main.                     *)
(*                                                                         *)
(* A Python str is a sequence of one-character strings.  A literal of the *)
(* source is kept as one element holding the literal's text, so that a    *)
(* formatted reply is the concatenation the f-string builds.               *)
(***************************************************************************)
EXTENDS Integers, Sequences, FiniteSets, TLC

VARIABLES book, prevBook, call, reply, repeat, today, result, pc

vars == <<book, prevBook, call, reply, repeat, today, result, pc>>

-----------------------------------------------------------------------------
(* Bounds of the model *)

\* today ranges over the years FirstYear .. FirstYear + YearSpan
YearSpan == 1
\* Record.add_phone is not called on a record that already holds MaxPhones
MaxPhones == 3
\* the argument lists handed to a handler hold at most MaxArgs strings
MaxArgs == 3

FirstYear == 2024

-----------------------------------------------------------------------------
(* Characters and strings *)

AsciiDigits == {"0", "1", "2", "3", "4", "5", "6", "7", "8", "9"}

\* "sup2" stands for U+00B2 SUPERSCRIPT TWO: str.isdigit() is true of it,
\* the regular expression class \d and int() do not accept it.
OtherDigits == {"sup2"}

DigitVal(c) ==
    CASE c = "0" -> 0 [] c = "1" -> 1 [] c = "2" -> 2 [] c = "3" -> 3
      [] c = "4" -> 4 [] c = "5" -> 5 [] c = "6" -> 6 [] c = "7" -> 7
      [] c = "8" -> 8 [] c = "9" -> 9

DigitChar(n) ==
    CASE n = 0 -> "0" [] n = 1 -> "1" [] n = 2 -> "2" [] n = 3 -> "3"
      [] n = 4 -> "4" [] n = 5 -> "5" [] n = 6 -> "6" [] n = 7 -> "7"
      [] n = 8 -> "8" [] n = 9 -> "9"

\* str.isdigit(): non-empty and every character is a digit character
isdigit(s) == Len(s) > 0 /\ \A i \in 1..Len(s) : s[i] \in AsciiDigits \cup OtherDigits

\* str.lower(), character by character
LowerChar(c) ==
    CASE c = "A" -> "a" [] c = "B" -> "b" [] c = "C" -> "c" [] c = "D" -> "d"
      [] c = "E" -> "e" [] c = "F" -> "f" [] c = "G" -> "g" [] c = "H" -> "h"
      [] c = "I" -> "i" [] c = "J" -> "j" [] c = "K" -> "k" [] c = "L" -> "l"
      [] c = "M" -> "m" [] c = "N" -> "n" [] c = "O" -> "o" [] c = "P" -> "p"
      [] c = "Q" -> "q" [] c = "R" -> "r" [] c = "S" -> "s" [] c = "T" -> "t"
      [] c = "U" -> "u" [] c = "V" -> "v" [] c = "W" -> "w" [] c = "X" -> "x"
      [] c = "Y" -> "y" [] c = "Z" -> "z" [] OTHER -> c

lower(s) == [i \in 1..Len(s) |-> LowerChar(s[i])]

\* str.split() with no separator: the maximal runs of non-blank characters
RECURSIVE SplitFrom(_, _, _)
SplitFrom(s, i, word) ==
    IF i > Len(s)
    THEN IF word = <<>> THEN <<>> ELSE <<word>>
    ELSE IF s[i] = " "
         THEN IF word = <<>> THEN SplitFrom(s, i + 1, <<>>)
                             ELSE <<word>> \o SplitFrom(s, i + 1, <<>>)
         ELSE SplitFrom(s, i + 1, Append(word, s[i]))

split(s) == SplitFrom(s, 1, <<>>)

\* sep.join(parts)
RECURSIVE join(_, _)
join(sep, parts) ==
    IF parts = <<>> THEN <<>>
    ELSE IF Len(parts) = 1 THEN parts[1]
    ELSE parts[1] \o sep \o join(sep, Tail(parts))

-----------------------------------------------------------------------------
(* datetime.date: a date is a record [year, month, day] *)

Date(y, m, d) == [year |-> y, month |-> m, day |-> d]

IsLeap(y) == y % 4 = 0 /\ (y % 100 # 0 \/ y % 400 = 0)

DaysInMonth(y, m) ==
    IF m = 2 THEN (IF IsLeap(y) THEN 29 ELSE 28)
    ELSE IF m \in {4, 6, 9, 11} THEN 30 ELSE 31

\* the fields form a date (years datetime.MINYEAR .. datetime.MAXYEAR)
ValidDate(y, m, d) ==
    /\ y >= 1 /\ y <= 9999
    /\ m >= 1 /\ m <= 12
    /\ d >= 1 /\ d <= DaysInMonth(y, m)

DaysBeforeYear(y) ==
    (y - 1) * 365 + ((y - 1) \div 4) - ((y - 1) \div 100) + ((y - 1) \div 400)

RECURSIVE DaysBeforeMonth(_, _)
DaysBeforeMonth(y, m) ==
    IF m = 1 THEN 0 ELSE DaysBeforeMonth(y, m - 1) + DaysInMonth(y, m - 1)

\* date.toordinal(): 0001-01-01 is day 1
toordinal(dt) == DaysBeforeYear(dt.year) + DaysBeforeMonth(dt.year, dt.month) + dt.day

\* strftime("%A") of the date with the given ordinal (C locale, the program
\* never calls setlocale); date.weekday() is (ordinal + 6) % 7, Monday = 0
DayNames == <<"Monday", "Tuesday", "Wednesday", "Thursday", "Friday", "Saturday", "Sunday">>

strftimeA(ordinal) == DayNames[((ordinal + 6) % 7) + 1]

\* date.replace(year=y): raises ValueError when the result is no date
replace_year(dt, y) ==
    IF ValidDate(y, dt.month, dt.day)
    THEN [ok |-> TRUE, date |-> Date(y, dt.month, dt.day)]
    ELSE [ok |-> FALSE, date |-> dt]

\* date < date
DateLess(a, b) ==
    \/ a.year < b.year
    \/ a.year = b.year /\ a.month < b.month
    \/ a.year = b.year /\ a.month = b.month /\ a.day < b.day

(* datetime.strptime(value, '%d.%m.%Y').  The format compiles to the regular
   expression  (3[0-1]|[1-2]\d|0[1-9]|[1-9]| [1-9]) \. (1[0-2]|0[1-9]|[1-9])
   \. (\d\d\d\d)  which must match the whole string; the fields found must
   then form a date. *)
MatchDay(s) ==
    \/ Len(s) = 2 /\ s[1] = "3" /\ s[2] \in {"0", "1"}
    \/ Len(s) = 2 /\ s[1] \in {"1", "2"} /\ s[2] \in AsciiDigits
    \/ Len(s) = 2 /\ s[1] = "0" /\ s[2] \in AsciiDigits \ {"0"}
    \/ Len(s) = 1 /\ s[1] \in AsciiDigits \ {"0"}
    \/ Len(s) = 2 /\ s[1] = " " /\ s[2] \in AsciiDigits \ {"0"}

MatchMonth(s) ==
    \/ Len(s) = 2 /\ s[1] = "1" /\ s[2] \in {"0", "1", "2"}
    \/ Len(s) = 2 /\ s[1] = "0" /\ s[2] \in AsciiDigits \ {"0"}
    \/ Len(s) = 1 /\ s[1] \in AsciiDigits \ {"0"}

MatchYear(s) == Len(s) = 4 /\ \A i \in 1..4 : s[i] \in AsciiDigits

\* int() of a matched field (a leading blank is skipped)
RECURSIVE IntOf(_)
IntOf(s) ==
    IF s = <<>> THEN 0
    ELSE IF s[Len(s)] = " " THEN 0
    ELSE 10 * IntOf(SubSeq(s, 1, Len(s) - 1)) + DigitVal(s[Len(s)])

\* the ways the expression matches s: the lengths of the day and month fields
StrptimeSplits(s) ==
    { sp \in {1, 2} \X {1, 2} :
        /\ Len(s) = sp[1] + sp[2] + 6
        /\ MatchDay(SubSeq(s, 1, sp[1]))
        /\ s[sp[1] + 1] = "."
        /\ MatchMonth(SubSeq(s, sp[1] + 2, sp[1] + 1 + sp[2]))
        /\ s[sp[1] + sp[2] + 2] = "."
        /\ MatchYear(SubSeq(s, sp[1] + sp[2] + 3, Len(s))) }

strptime(s) ==
    IF StrptimeSplits(s) = {}
    THEN [ok |-> FALSE, date |-> Date(0, 0, 0)]
    ELSE LET sp == CHOOSE x \in StrptimeSplits(s) : TRUE
             d  == IntOf(SubSeq(s, 1, sp[1]))
             m  == IntOf(SubSeq(s, sp[1] + 2, sp[1] + 1 + sp[2]))
             y  == IntOf(SubSeq(s, sp[1] + sp[2] + 3, Len(s)))
         IN IF ValidDate(y, m, d)
            THEN [ok |-> TRUE, date |-> Date(y, m, d)]
            ELSE [ok |-> FALSE, date |-> Date(0, 0, 0)]

-----------------------------------------------------------------------------
(* Python values handed to a handler: a str or a list of str *)

Str(s) == [t |-> "str", v |-> s]
List(l) == [t |-> "list", v |-> l]

\* a field that was never set (Record.birthday = None)
None == <<>>

-----------------------------------------------------------------------------
(* Field, Phone, Birthday, Record *)

PhoneLen == 10

PhoneError == <<"Invalid phone number format. Must be a string of 10 digits.">>
BirthdayError == <<"Invalid birthday format. Must be in the format DD.MM.YYYY.">>

\* Phone.__init__ accepts the value
PhoneAccepts(value) ==
    value.t = "str" /\ isdigit(value.v) /\ Len(value.v) = PhoneLen

\* Birthday.__init__ accepts the value
BirthdayAccepts(value) == strptime(value).ok

\* Record.__init__
Record(name) == [name |-> name, phones |-> <<>>, birthday |-> None]

\* Record.add_phone, after Phone(phone_number) was built
Record_add_phone(record, phone_number) ==
    [record EXCEPT !.phones = Append(@, phone_number)]

\* Record.remove_phone
RECURSIVE Without(_, _)
Without(phones, phone_number) ==
    IF phones = <<>> THEN <<>>
    ELSE IF phones[1] # phone_number
         THEN <<phones[1]>> \o Without(Tail(phones), phone_number)
         ELSE Without(Tail(phones), phone_number)

Record_remove_phone(record, phone_number) ==
    [record EXCEPT !.phones = Without(@, phone_number)]

\* variant: the loop stops at the first phone that matches
Record_edit_phone_FirstOnly(record, old_phone_number, new_phone_number) ==
    [record EXCEPT !.phones =
        [i \in 1..Len(@) |->
            IF @[i] = old_phone_number /\ \A j \in 1..(i - 1) : @[j] # old_phone_number
            THEN new_phone_number ELSE @[i]]]

\* Record.edit_phone: every phone whose value is old_phone_number gets the new
\* value, which is assigned to Phone.value without passing Phone.__init__
Record_edit_phone(record, old_phone_number, new_phone_number) ==
    [record EXCEPT !.phones =
        [i \in 1..Len(@) |-> IF @[i] = old_phone_number THEN new_phone_number ELSE @[i]]]

\* Record.add_birthday, after Birthday(birthday) was built
Record_add_birthday(record, birthday) == [record EXCEPT !.birthday = birthday]

\* Record.__str__
Record_str(record) ==
    <<"Contact name: ">> \o record.name \o <<", phones: ">>
      \o join(<<"; ">>, record.phones) \o <<", birthday: ">>
      \o (IF record.birthday = None THEN <<"None">> ELSE record.birthday)

-----------------------------------------------------------------------------
(* AddressBook: data is a dict, modelled as the sequence of its records in
   insertion order, with one record per name *)

\* position of the record of a name, 0 when there is none
IndexOf(data, name) ==
    IF \E i \in 1..Len(data) : data[i].name = name
    THEN CHOOSE i \in 1..Len(data) : data[i].name = name
    ELSE 0

\* variant: the record is appended even when the name is already a key
add_record_Append(data, record) == Append(data, record)

\* AddressBook.add_record: an existing key keeps its position
add_record(data, record) ==
    IF IndexOf(data, record.name) = 0
    THEN Append(data, record)
    ELSE [data EXCEPT ![IndexOf(data, record.name)] = record]

\* AddressBook.delete
delete(data, name) ==
    IF IndexOf(data, name) = 0 THEN data
    ELSE SubSeq(data, 1, IndexOf(data, name) - 1)
           \o SubSeq(data, IndexOf(data, name) + 1, Len(data))

Window == 7

(* AddressBook.get_birthdays_per_week with datetime.today().date() = now.
   The result is [ok, groups]: ok is FALSE when date.replace raised
   ValueError; groups is the defaultdict as the sequence of its
   [day, names] items in insertion order. *)
GroupAppend(groups, day, name) ==
    IF \E i \in 1..Len(groups) : groups[i].day = day
    THEN [i \in 1..Len(groups) |->
            IF groups[i].day = day
            THEN [groups[i] EXCEPT !.names = Append(@, name)]
            ELSE groups[i]]
    ELSE Append(groups, [day |-> day, names |-> <<name>>])

\* variant: only Saturday is moved to Monday
WeekendToMonday_SaturdayOnly(birthday_day) ==
    IF birthday_day = "Saturday" THEN "Monday" ELSE birthday_day

\* the weekend rule of lines 128-129
WeekendToMonday(birthday_day) ==
    IF birthday_day = "Saturday" \/ birthday_day = "Sunday" THEN "Monday" ELSE birthday_day

\* one iteration of the loop over data.values(): acc is [ok, groups]
BirthdayStep(acc, record, now) ==
    IF ~acc.ok \/ record.birthday = None THEN acc
    ELSE LET birthday_date == strptime(record.birthday).date
             this_year == replace_year(birthday_date, now.year)
         IN IF ~this_year.ok THEN [acc EXCEPT !.ok = FALSE]
            ELSE LET rolled == IF DateLess(this_year.date, now)
                               THEN replace_year(this_year.date, now.year + 1)
                               ELSE this_year
                 IN IF ~rolled.ok THEN [acc EXCEPT !.ok = FALSE]
                    ELSE LET delta_days == toordinal(rolled.date) - toordinal(now)
                         IN IF delta_days < Window
                            THEN [acc EXCEPT !.groups =
                                    GroupAppend(@, WeekendToMonday(strftimeA(toordinal(now) + delta_days)),
                                                record.name)]
                            ELSE acc

RECURSIVE BirthdayLoop(_, _, _, _)
BirthdayLoop(acc, data, i, now) ==
    IF i > Len(data) THEN acc
    ELSE BirthdayLoop(BirthdayStep(acc, data[i], now), data, i + 1, now)

get_birthdays_per_week(data, now) ==
    BirthdayLoop([ok |-> TRUE, groups |-> <<>>], data, 1, now)

-----------------------------------------------------------------------------
(* The handlers, each with the input_error wrapper applied.  A handler
   yields [reply, book, exc]: exc is "none" when the wrapper returned reply,
   and the name of the exception when one left the wrapper. *)

Ret(r, data) == [reply |-> r, book |-> data, exc |-> "none"]
Raise(e, data) == [reply |-> <<>>, book |-> data, exc |-> e]

NotEnoughArguments == <<"Not enough arguments provided.">>

\* str(e) of the ValueError of  name, x = args  when len(args) # 2
UnpackError(n) ==
    IF n < 2
    THEN <<"not enough values to unpack (expected 2, got ", DigitChar(n), ")">>
    ELSE <<"too many values to unpack (expected 2)">>

NotFound(name) == <<"Contact ">> \o name \o <<" not found.">>

\* variant: the phone is added to the record the store already holds
add_contact_Extend(args, data) ==
    IF Len(args) # 2 THEN Ret(UnpackError(Len(args)), data)
    ELSE LET name == args[1]
             phone == args[2]
         IN IF ~PhoneAccepts(phone) THEN Ret(PhoneError, data)
            ELSE IF name.t # "str" THEN Raise("TypeError", data)
            ELSE IF IndexOf(data, name.v) # 0
            THEN Ret(<<"Contact added.">>,
                     [data EXCEPT ![IndexOf(data, name.v)] = Record_add_phone(@, phone.v)])
            ELSE Ret(<<"Contact added.">>,
                     add_record(data, Record_add_phone(Record(name.v), phone.v)))

add_contact(args, data) ==
    IF Len(args) # 2 THEN Ret(UnpackError(Len(args)), data)
    ELSE LET name == args[1]
             phone == args[2]
         IN IF ~PhoneAccepts(phone) THEN Ret(PhoneError, data)
            ELSE IF name.t # "str" THEN Raise("TypeError", data)
            ELSE Ret(<<"Contact added.">>,
                     add_record(data, Record_add_phone(Record(name.v), phone.v)))

change_contact(args, data) ==
    IF Len(args) # 2 THEN Ret(UnpackError(Len(args)), data)
    ELSE LET name == args[1]
             new_phone == args[2]
         IN IF name.t # "str" THEN Raise("TypeError", data)
            ELSE LET i == IndexOf(data, name.v)
                 IN IF i = 0 THEN Ret(NotFound(name.v), data)
                    ELSE IF data[i].phones = <<>> THEN Ret(NotEnoughArguments, data)
                    ELSE Ret(<<"Contact updated.">>,
                             [data EXCEPT ![i] =
                                Record_edit_phone(@, @.phones[1], new_phone.v)])

show_phone(args, data) ==
    IF Len(args) = 0 THEN Ret(NotEnoughArguments, data)
    ELSE LET name == args[1]
         IN IF name.t # "str" THEN Raise("TypeError", data)
            ELSE LET i == IndexOf(data, name.v)
                 IN IF i = 0 THEN Ret(NotFound(name.v), data)
                    ELSE IF data[i].phones = <<>> THEN Ret(NotEnoughArguments, data)
                    ELSE Ret(name.v \o <<"'s phone number: ">> \o data[i].phones[1], data)

RECURSIVE AllLines(_)
AllLines(data) ==
    IF data = <<>> THEN <<>>
    ELSE Record_str(data[1]) \o <<"\n">> \o AllLines(Tail(data))

\* str.strip() of a text that ends with the one newline the loop appended
StripLast(text) == SubSeq(text, 1, Len(text) - 1)

show_all(data) ==
    IF data # <<>>
    THEN Ret(StripLast(<<"All contacts:\n">> \o AllLines(data)), data)
    ELSE Ret(<<"No contacts found.">>, data)

\* variant: the birthday is stored before it is validated
add_birthday_StoreFirst(args, data) ==
    IF Len(args) # 2 THEN Ret(UnpackError(Len(args)), data)
    ELSE LET name == args[1]
             birthday == args[2]
         IN IF name.t # "str" THEN Raise("TypeError", data)
            ELSE LET i == IndexOf(data, name.v)
                 IN IF i = 0 THEN Ret(NotFound(name.v), data)
                    ELSE IF birthday.t # "str" THEN Raise("TypeError", data)
                    ELSE IF ~BirthdayAccepts(birthday.v)
                    THEN Ret(BirthdayError, [data EXCEPT ![i] = Record_add_birthday(@, birthday.v)])
                    ELSE Ret(<<"Birthday added.">>,
                             [data EXCEPT ![i] = Record_add_birthday(@, birthday.v)])

add_birthday(args, data) ==
    IF Len(args) # 2 THEN Ret(UnpackError(Len(args)), data)
    ELSE LET name == args[1]
             birthday == args[2]
         IN IF name.t # "str" THEN Raise("TypeError", data)
            ELSE LET i == IndexOf(data, name.v)
                 IN IF i = 0 THEN Ret(NotFound(name.v), data)
                    ELSE IF birthday.t # "str" THEN Raise("TypeError", data)
                    ELSE IF ~BirthdayAccepts(birthday.v) THEN Ret(BirthdayError, data)
                    ELSE Ret(<<"Birthday added.">>,
                             [data EXCEPT ![i] = Record_add_birthday(@, birthday.v)])

show_birthday(args, data) ==
    IF Len(args) = 0 THEN Ret(NotEnoughArguments, data)
    ELSE LET name == args[1]
         IN IF name.t # "str" THEN Raise("TypeError", data)
            ELSE LET i == IndexOf(data, name.v)
                 IN IF i = 0 THEN Ret(NotFound(name.v), data)
                    ELSE IF data[i].birthday # None
                    THEN Ret(name.v \o <<"'s birthday: ">> \o data[i].birthday, data)
                    ELSE Ret(name.v \o <<" has no birthday specified.">>, data)

RECURSIVE GroupLines(_)
GroupLines(groups) ==
    IF groups = <<>> THEN <<>>
    ELSE <<groups[1].day, ": ">> \o join(<<", ">>, groups[1].names) \o <<"\n">>
           \o GroupLines(Tail(groups))

show_birthdays(data, now) ==
    LET birthdays_per_week == get_birthdays_per_week(data, now)
    IN IF ~birthdays_per_week.ok THEN Ret(<<"day is out of range for month">>, data)
       ELSE IF birthdays_per_week.groups # <<>>
       THEN Ret(StripLast(<<"Birthdays for the next week:\n">>
                            \o GroupLines(birthdays_per_week.groups)), data)
       ELSE Ret(<<"No birthdays in the next week.">>, data)

-----------------------------------------------------------------------------
(* parse_input and one pass of the loop of main *)

\* parse_input: [ok, cmd, args]; ok is FALSE when  cmd, *args = []  raised
\* ValueError.  strip() changes nothing in a word that split() produced.
parse_input(user_input) ==
    LET words == split(user_input)
    IN IF words = <<>>
       THEN [ok |-> FALSE, cmd |-> <<>>, args |-> <<>>]
       ELSE [ok |-> TRUE, cmd |-> lower(words[1]), args |-> Tail(words)]

CmdClose == <<"c", "l", "o", "s", "e">>
CmdExit == <<"e", "x", "i", "t">>
CmdHello == <<"h", "e", "l", "l", "o">>
CmdAdd == <<"a", "d", "d">>
CmdChange == <<"c", "h", "a", "n", "g", "e">>
CmdPhone == <<"p", "h", "o", "n", "e">>
CmdAll == <<"a", "l", "l">>
CmdAddBirthday == <<"a", "d", "d", "-", "b", "i", "r", "t", "h", "d", "a", "y">>
CmdShowBirthday == <<"s", "h", "o", "w", "-", "b", "i", "r", "t", "h", "d", "a", "y">>
CmdBirthdays == <<"b", "i", "r", "t", "h", "d", "a", "y", "s">>

(* The body of the while loop for one line read.  main unpacks
   command, *args = parse_input(user_input)  from the pair (cmd, args), so
   the args it hands to a handler is the one-element list [args]. *)
main_step(user_input, data, now) ==
    LET parsed == parse_input(user_input)
        command == parsed.cmd
        args == << List([i \in 1..Len(parsed.args) |-> parsed.args[i]]) >>
    IN IF ~parsed.ok THEN [out |-> Raise("ValueError", data), pc |-> "crashed"]
       ELSE IF command \in {CmdClose, CmdExit}
            THEN [out |-> Ret(<<"Good bye!">>, data), pc |-> "done"]
       ELSE LET out ==
                  IF command = CmdHello THEN Ret(<<"How can I help you?">>, data)
                  ELSE IF command = CmdAdd THEN add_contact(args, data)
                  ELSE IF command = CmdChange THEN change_contact(args, data)
                  ELSE IF command = CmdPhone THEN show_phone(args, data)
                  ELSE IF command = CmdAll THEN show_all(data)
                  ELSE IF command = CmdAddBirthday THEN add_birthday(args, data)
                  ELSE IF command = CmdShowBirthday THEN show_birthday(args, data)
                  ELSE IF command = CmdBirthdays THEN show_birthdays(data, now)
                  ELSE Ret(<<"Invalid command.">>, data)
            IN [out |-> out, pc |-> IF out.exc = "none" THEN "prompt" ELSE "crashed"]

-----------------------------------------------------------------------------
(* Inputs *)

John == <<"J", "o", "h", "n">>
Ann == <<"A", "n", "n">>
Names == {John, Ann}

Phone1 == <<"1", "2", "3", "4", "5", "6", "7", "8", "9", "0">>
Phone2 == <<"0", "9", "8", "7", "6", "5", "4", "3", "2", "1">>
PhoneShort == <<"1", "2", "3">>
PhoneAlpha == <<"1", "2", "3", "4", "5", "a", "b", "c", "d", "e">>
PhoneSup == [i \in 1..10 |-> "sup2"]

GoodPhones == {Phone1, Phone2}
BadPhones == {PhoneShort}

Bday0101 == <<"0", "1", ".", "0", "1", ".", "1", "9", "9", "0">>
Bday2902 == <<"2", "9", ".", "0", "2", ".", "2", "0", "2", "4">>
Bday0303 == <<"3", ".", "3", ".", "2", "0", "0", "1">>
Bday2802 == <<"2", "8", ".", "0", "2", ".", "1", "9", "8", "5">>
Bday3112 == <<"3", "1", ".", "1", "2", ".", "1", "9", "9", "9">>
BdayFeb31 == <<"3", "1", ".", "0", "2", ".", "2", "0", "2", "4">>
BdayFeb29NoLeap == <<"2", "9", ".", "0", "2", ".", "2", "0", "2", "3">>
BdayDashes == <<"0", "1", "-", "0", "1", "-", "1", "9", "9", "0">>

GoodBdays == {Bday2902}
BadBdays == {BdayFeb31}

\* the strings the handlers are called with
Values == GoodPhones \cup BadPhones \cup {PhoneSup} \cup GoodBdays \cup BadBdays

\* argument lists of 0 .. MaxArgs strings
Padding == UNION { [1..k -> {Phone1}] : k \in 1..(MaxArgs - 2) }

ArgLists ==
    {<<>>} \cup { <<Str(n)>> : n \in Names }
           \cup { <<Str(n), Str(v)>> : n \in Names, v \in Values }
           \cup { <<Str(n), Str(v)>> \o [i \in 1..Len(pad) |-> Str(pad[i])] :
                    n \in Names, v \in {Phone1, Bday2902}, pad \in Padding }

\* the dates the clock shows
Years == FirstYear..(FirstYear + YearSpan)

HandlerTodays == { Date(FirstYear, 12, 31), Date(FirstYear + YearSpan, 2, 26) }

NoDate == Date(0, 0, 0)
NoResult == [ok |-> TRUE, groups |-> <<>>]
NoCall == [op |-> "none", args |-> <<>>]

-----------------------------------------------------------------------------
(* State machine *)

Init ==
    /\ book = <<>>
    /\ prevBook = <<>>
    /\ call = NoCall
    /\ reply = <<>>
    /\ repeat = FALSE
    /\ today = NoDate
    /\ result = NoResult
    /\ pc = "prompt"

\* the effect of a handler call that produced out
Finish(c, out) ==
    /\ book' = out.book
    /\ prevBook' = book
    /\ call' = c
    /\ reply' = out.reply
    /\ repeat' = (call = c)
    /\ pc' = IF out.exc = "none" THEN pc ELSE "crashed"

NoClock == today' = NoDate /\ result' = NoResult

AddContact(args) ==
    /\ pc = "prompt"
    /\ Finish([op |-> "add_contact", args |-> args], add_contact(args, book))
    /\ NoClock

ChangeContact(args) ==
    /\ pc = "prompt"
    /\ Finish([op |-> "change_contact", args |-> args], change_contact(args, book))
    /\ NoClock

ShowPhone(args) ==
    /\ pc = "prompt"
    /\ Finish([op |-> "show_phone", args |-> args], show_phone(args, book))
    /\ NoClock

ShowAll ==
    /\ pc = "prompt"
    /\ Finish([op |-> "show_all", args |-> <<>>], show_all(book))
    /\ NoClock

AddBirthday(args) ==
    /\ pc = "prompt"
    /\ Finish([op |-> "add_birthday", args |-> args], add_birthday(args, book))
    /\ NoClock

ShowBirthday(args) ==
    /\ pc = "prompt"
    /\ Finish([op |-> "show_birthday", args |-> args], show_birthday(args, book))
    /\ NoClock

ShowBirthdays(now) ==
    /\ pc = "prompt"
    /\ Finish([op |-> "show_birthdays", args |-> <<>>], show_birthdays(book, now))
    /\ today' = now
    /\ result' = NoResult

(* Specification of the handlers called with arbitrary argument lists *)
HAddContact == \E args \in ArgLists : AddContact(args)
HChangeContact == \E args \in ArgLists : ChangeContact(args)
HShowPhone == \E args \in ArgLists : ShowPhone(args)
HAddBirthday == \E args \in ArgLists : AddBirthday(args)
HShowBirthday == \E args \in ArgLists : ShowBirthday(args)
HShowBirthdays == \E now \in HandlerTodays : ShowBirthdays(now)

Next ==
    \/ HAddContact
    \/ HChangeContact
    \/ HShowPhone
    \/ ShowAll
    \/ HAddBirthday
    \/ HShowBirthday
    \/ HShowBirthdays

Spec == Init /\ [][Next]_vars

-----------------------------------------------------------------------------
(* Specification of the Record and AddressBook methods called directly,
   next to the handlers: a record can then hold several phones, or none *)

ApiPhones == {Phone1, Phone2, PhoneAlpha}
ApiNewPhones == {Phone2}

\* a method called directly: an exception goes to the caller, reply is empty
ApiFinish(c, data) ==
    /\ book' = data
    /\ prevBook' = book
    /\ call' = c
    /\ reply' = <<>>
    /\ repeat' = (call = c)
    /\ pc' = pc
    /\ NoClock

\* Record.add_phone on the record of name: ValueError when Phone() rejects
ApiAddPhone ==
    \E name \in Names, phone \in ApiPhones :
        /\ IndexOf(book, name) # 0
        /\ Len(book[IndexOf(book, name)].phones) < MaxPhones
        /\ ApiFinish([op |-> "Record.add_phone", args |-> <<Str(name), Str(phone)>>],
                     IF PhoneAccepts(Str(phone))
                     THEN [book EXCEPT ![IndexOf(book, name)] = Record_add_phone(@, phone)]
                     ELSE book)

ApiRemovePhone ==
    \E name \in Names, phone \in ApiPhones :
        /\ IndexOf(book, name) # 0
        /\ ApiFinish([op |-> "Record.remove_phone", args |-> <<Str(name), Str(phone)>>],
                     [book EXCEPT ![IndexOf(book, name)] = Record_remove_phone(@, phone)])

ApiDelete ==
    \E name \in Names :
        ApiFinish([op |-> "AddressBook.delete", args |-> <<Str(name)>>], delete(book, name))

ApiAddContact == \E name \in Names : AddContact(<<Str(name), Str(Phone1)>>)
ApiChangeContact == \E name \in Names, phone \in ApiNewPhones : ChangeContact(<<Str(name), Str(phone)>>)
ApiAddBirthday == \E name \in Names : AddBirthday(<<Str(name), Str(Bday0101)>>)

NextApi ==
    \/ ApiAddContact
    \/ ApiAddPhone
    \/ ApiRemovePhone
    \/ ApiChangeContact
    \/ ApiAddBirthday
    \/ ApiDelete

SpecApi == Init /\ [][NextApi]_vars

-----------------------------------------------------------------------------
(* Specification of get_birthdays_per_week over stores of validated
   birthdays and the days the clock can show *)

WeekBdays == {Bday0101, Bday2902, Bday0303, Bday2802, Bday3112,
              BdayFeb31, BdayFeb29NoLeap, BdayDashes}

\* the days around the turn of the year and around the end of February
Todays == { dt \in [year : Years, month : {1, 2, 3, 12}, day : 1..31] :
              /\ ValidDate(dt.year, dt.month, dt.day)
              /\ \/ dt.month = 12 /\ dt.day >= 24
                 \/ dt.month = 1 /\ dt.day <= 2
                 \/ dt.month = 2 /\ dt.day >= 21
                 \/ dt.month = 3 /\ dt.day <= 4 }

WeekAddContact == \E name \in Names : AddContact(<<Str(name), Str(Phone1)>>)
WeekAddBirthday == \E name \in Names, b \in WeekBdays : AddBirthday(<<Str(name), Str(b)>>)

GetBirthdaysPerWeek ==
    \E now \in Todays :
        /\ pc = "prompt"
        /\ book' = book
        /\ prevBook' = book
        /\ call' = [op |-> "get_birthdays_per_week", args |-> <<>>]
        /\ reply' = <<>>
        /\ repeat' = FALSE
        /\ pc' = pc
        /\ today' = now
        /\ result' = get_birthdays_per_week(book, now)

NextWeek ==
    \/ WeekAddContact
    \/ WeekAddBirthday
    \/ GetBirthdaysPerWeek

SpecWeek == Init /\ [][NextWeek]_vars

-----------------------------------------------------------------------------
(* Specification of the command loop main reading input lines *)

Unknown == <<"U", "n", "k", "n", "o", "w", "n">>
Blank == <<" ">>

Verbs == {CmdClose, CmdExit, CmdHello, CmdAdd, CmdChange, CmdPhone, CmdAll,
          CmdAddBirthday, CmdShowBirthday, CmdBirthdays,
          <<"A", "D", "D">>, <<"P", "h", "o", "n", "e">>, <<"E", "X", "I", "T">>,
          <<"C", "h", "a", "n", "g", "e">>, <<"f", "o", "o">>}

LineNames == {John, Unknown}

LineArgs ==
    {<<>>} \cup { <<n>> : n \in LineNames }
           \cup { <<n, v>> : n \in LineNames, v \in {Phone1, Phone2, PhoneShort, Bday2902} }
           \cup { <<n, Phone1, Phone2>> : n \in LineNames }

Lines ==
    { join(Blank, <<verb>> \o words) : verb \in Verbs, words \in LineArgs }
      \cup { Blank \o Blank \o join(Blank \o Blank, <<verb>> \o words) \o Blank :
               verb \in {CmdAdd, CmdPhone, CmdHello}, words \in LineArgs }
      \cup { <<>>, Blank, Blank \o Blank }

MainLoop ==
    \E user_input \in Lines, now \in HandlerTodays :
        LET step == main_step(user_input, book, now)
        IN /\ pc = "prompt"
           /\ book' = step.out.book
           /\ prevBook' = book
           /\ call' = [op |-> "input", args |-> user_input]
           /\ reply' = step.out.reply
           /\ repeat' = (call = [op |-> "input", args |-> user_input])
           /\ pc' = step.pc
           /\ today' = IF parse_input(user_input).cmd = CmdBirthdays THEN now ELSE NoDate
           /\ result' = NoResult

NextMain == MainLoop

SpecMain == Init /\ [][NextMain]_vars

-----------------------------------------------------------------------------
(* Properties *)

\* a string of exactly 10 decimal digits
TenDecimalDigits(s) == Len(s) = 10 /\ \A i \in 1..Len(s) : s[i] \in AsciiDigits

\* a string of exactly 10 digit characters
TenDigits(s) == Len(s) = 10 /\ \A i \in 1..Len(s) : s[i] \in AsciiDigits \cup OtherDigits

\* the input line made of the given words
Line(words) == join(Blank, words)

\* the record the store data holds for name (name is in the store)
RecordOf(data, name) == data[IndexOf(data, name)]

\* the last call was a handler call with exactly two string arguments
TwoArgCall(op) == call.op = op /\ Len(call.args) = 2

(* C1: in the command loop, `add n p` with a valid phone is answered
   "Contact added." and stores p for n; `change n q` on a stored n is
   answered "Contact updated." and stores q; `phone n` is answered
   "n's phone number: p" for the stored phone p of n, and "Contact n not
   found." when n is not in the store; the loop goes on after each. *)
C1_EndToEnd ==
    call.op = "input" =>
        \A n \in LineNames :
            /\ \A p \in GoodPhones :
                 /\ call.args = Line(<<CmdAdd, n, p>>) =>
                        /\ pc = "prompt"
                        /\ reply = <<"Contact added.">>
                        /\ IndexOf(book, n) # 0
                        /\ RecordOf(book, n).phones = <<p>>
                 /\ (call.args = Line(<<CmdChange, n, p>>) /\ IndexOf(prevBook, n) # 0) =>
                        /\ pc = "prompt"
                        /\ reply = <<"Contact updated.">>
                        /\ RecordOf(book, n).phones[1] = p
            /\ call.args = Line(<<CmdPhone, n>>) =>
                 /\ pc = "prompt"
                 /\ reply = IF IndexOf(prevBook, n) = 0
                            THEN <<"Contact ">> \o n \o <<" not found.">>
                            ELSE n \o <<"'s phone number: ">> \o RecordOf(prevBook, n).phones[1]

\* the verb of an input line is close or exit
IsExitLine(user_input) ==
    split(user_input) # <<>> /\ lower(split(user_input)[1]) \in {CmdClose, CmdExit}

(* C2: every input line whose verb is not close or exit gets a reply and the
   loop returns to the prompt; nothing propagates out of the loop; the loop
   ends only after a close or exit line, having printed "Good bye!". *)
C2_LoopSurvives ==
    /\ pc # "crashed"
    /\ call.op = "input" =>
         /\ ~IsExitLine(call.args) => (pc = "prompt" /\ reply # <<>>)
         /\ pc = "done" => (IsExitLine(call.args) /\ reply = <<"Good bye!">>)

(* C3: every phone stored in every contact of the store is a string of
   exactly 10 decimal digits. *)
C3_PhonesTenDigits ==
    \A i \in 1..Len(book) : \A j \in 1..Len(book[i].phones) :
        TenDecimalDigits(book[i].phones[j])

\* the number of arguments a handler requires
Required(op) ==
    IF op \in {"add_contact", "change_contact", "add_birthday"} THEN 2
    ELSE IF op \in {"show_phone", "show_birthday"} THEN 1
    ELSE 0

(* C4: a handler called with fewer arguments than it requires returns
   "Not enough arguments provided." and leaves the store unchanged. *)
C4_TooFewArguments ==
    Len(call.args) < Required(call.op) =>
        (reply = <<"Not enough arguments provided.">> /\ book = prevBook)

\* days from now to the next occurrence of the birthday b: this year's date,
\* or next year's date when this year's is before now
DaysToNext(b, now) ==
    LET born == strptime(b).date
        thisYear == toordinal(Date(now.year, born.month, born.day))
        nextYear == toordinal(Date(now.year + 1, born.month, born.day))
    IN IF thisYear < toordinal(now) THEN nextYear - toordinal(now)
                                    ELSE thisYear - toordinal(now)

\* how many times name is listed in the groups
Listed(groups, name) ==
    Cardinality({ gk \in (1..Len(groups)) \X (1..Len(book)) :
                    /\ gk[2] <= Len(groups[gk[1]].names)
                    /\ groups[gk[1]].names[gk[2]] = name })

InWindow(record, now) ==
    record.birthday # None /\ DaysToNext(record.birthday, now) \in 0..6

(* C5: get_birthdays_per_week returns a mapping in which a contact is
   listed, exactly once, if and only if it has a birthday whose next
   occurrence is 0..6 days from today. *)
C5_WeekMembership ==
    call.op = "get_birthdays_per_week" =>
        /\ result.ok
        /\ \A i \in 1..Len(book) :
             Listed(result.groups, book[i].name) = IF InWindow(book[i], today) THEN 1 ELSE 0

\* weekday (Monday = 0) of the next occurrence of the birthday b
OccurrenceWeekday(b, now) == (toordinal(now) + DaysToNext(b, now) + 6) % 7

ExpectedDay(b, now) ==
    IF OccurrenceWeekday(b, now) \in {5, 6} THEN "Monday"
    ELSE DayNames[OccurrenceWeekday(b, now) + 1]

(* C6: in the mapping returned by get_birthdays_per_week no group is keyed
   Saturday or Sunday; a contact whose occurrence in the window falls on a
   Saturday or Sunday is listed under Monday, every other listed contact
   under the weekday name of its occurrence. *)
C6_WeekendRule ==
    (call.op = "get_birthdays_per_week" /\ result.ok) =>
        /\ \A g \in 1..Len(result.groups) :
             /\ result.groups[g].day \notin {"Saturday", "Sunday"}
             /\ \A k \in 1..Len(result.groups[g].names) :
                  LET name == result.groups[g].names[k]
                  IN /\ IndexOf(book, name) # 0
                     /\ RecordOf(book, name).birthday # None
                     /\ result.groups[g].day = ExpectedDay(RecordOf(book, name).birthday, today)
        /\ \A i \in 1..Len(book) :
             (InWindow(book[i], today) /\ OccurrenceWeekday(book[i].birthday, today) \in {5, 6}) =>
                 \E g \in 1..Len(result.groups) :
                     /\ result.groups[g].day = "Monday"
                     /\ \E k \in 1..Len(result.groups[g].names) :
                            result.groups[g].names[k] = book[i].name

\* a mapping was returned that lists a Sunday birthday under Monday next to
\* a group of another day
C6_Witness ==
    /\ call.op = "get_birthdays_per_week"
    /\ result.ok
    /\ Len(result.groups) = 2
    /\ \E g \in 1..Len(result.groups) :
         /\ result.groups[g].day = "Monday"
         /\ OccurrenceWeekday(RecordOf(book, result.groups[g].names[1]).birthday, today) = 6

(* C7: add_contact with a valid phone and a name already in the store
   returns "Contact added."; the store then holds one entry for the name,
   with phones [phone] and no birthday, and every other contact unchanged. *)
C7_AddOverwrites ==
    (/\ TwoArgCall("add_contact")
     /\ TenDigits(call.args[2].v)
     /\ IndexOf(prevBook, call.args[1].v) # 0) =>
        /\ reply = <<"Contact added.">>
        /\ Len(book) = Len(prevBook)
        /\ \A i \in 1..Len(book) :
             IF prevBook[i].name = call.args[1].v
             THEN book[i] = [name |-> call.args[1].v,
                             phones |-> <<call.args[2].v>>,
                             birthday |-> None]
             ELSE book[i] = prevBook[i]
        /\ Cardinality({ i \in 1..Len(book) : book[i].name = call.args[1].v }) = 1

\* add_contact replaced an entry that had another phone and a birthday,
\* next to a second contact
C7_Witness ==
    /\ TwoArgCall("add_contact")
    /\ reply = <<"Contact added.">>
    /\ Len(prevBook) = 2
    /\ IndexOf(prevBook, call.args[1].v) # 0
    /\ RecordOf(prevBook, call.args[1].v).birthday # None
    /\ RecordOf(prevBook, call.args[1].v).phones # <<call.args[2].v>>

C8Ops == {"add_contact", "change_contact", "add_birthday", "show_phone",
          "show_birthday", "show_all"}

(* C8: issuing the same command (add, change, add-birthday, phone,
   show-birthday, all) a second time in a row leaves the store as the first
   call left it, and the second reply equals the first. *)
C8_Idempotent ==
    [][(call' = call /\ call.op \in C8Ops) => (book' = book /\ reply' = reply)]_vars

\* a successful add_contact or change_contact was issued twice in a row on
\* a record whose first call changed the store
C8_Witness ==
    /\ repeat
    /\ call.op \in {"add_contact", "change_contact"}
    /\ reply \in {<<"Contact added.">>, <<"Contact updated.">>}
    /\ book = prevBook
    /\ RecordOf(book, call.args[1].v).phones = <<call.args[2].v>>

\* change_contact succeeded on the contact at position i of the store
Changed(i) ==
    /\ TwoArgCall("change_contact")
    /\ reply = <<"Contact updated.">>
    /\ i \in 1..Len(prevBook)
    /\ prevBook[i].name = call.args[1].v

\* what change_contact leaves alone
C9_Frame(i) ==
    /\ Len(book) = Len(prevBook)
    /\ \A k \in 1..Len(book) : k # i => book[k] = prevBook[k]
    /\ book[i].name = prevBook[i].name
    /\ book[i].birthday = prevBook[i].birthday
    /\ Len(book[i].phones) = Len(prevBook[i].phones)

(* C9 as claimed: change_contact replaces only the first element of the
   phone list; every other phone, also one equal to the old first value,
   keeps its value and position. *)
C9_OnlyFirst ==
    \A i \in 1..Len(prevBook) :
        Changed(i) =>
            /\ C9_Frame(i)
            /\ book[i].phones = [prevBook[i].phones EXCEPT ![1] = call.args[2].v]

(* C9 amended: change_contact replaces the first element of the phone list
   and every other element equal to the old first value with new_phone;
   every phone that differs from the old first value keeps its value and
   position; the birthday and all other contacts are unchanged. *)
C9_FirstAndEqual ==
    \A i \in 1..Len(prevBook) :
        Changed(i) =>
            /\ C9_Frame(i)
            /\ \A j \in 1..Len(book[i].phones) :
                 book[i].phones[j] =
                    IF prevBook[i].phones[j] = prevBook[i].phones[1]
                    THEN call.args[2].v
                    ELSE prevBook[i].phones[j]

\* change_contact acted on a contact with a birthday whose phone list held
\* the first value twice and another value, next to a second contact
C9_Witness ==
    \E i \in 1..Len(prevBook) :
        /\ Changed(i)
        /\ Len(prevBook) = 2
        /\ prevBook[i].birthday # None
        /\ Len(prevBook[i].phones) >= 3
        /\ call.args[2].v # prevBook[i].phones[1]
        /\ \E j \in 2..Len(prevBook[i].phones) : prevBook[i].phones[j] = prevBook[i].phones[1]
        /\ \E j \in 2..Len(prevBook[i].phones) : prevBook[i].phones[j] # prevBook[i].phones[1]

\* add_contact was called with a phone that validation rejects
BadPhoneCall == TwoArgCall("add_contact") /\ ~TenDigits(call.args[2].v)

\* add_birthday was called with a string that is no DD.MM.YYYY date
BadBirthdayCall == TwoArgCall("add_birthday") /\ ~strptime(call.args[2].v).ok

(* C10 as claimed: add_contact with a phone that is not 10 digits, and
   add_birthday with a string that is no valid date, return the validation
   message and leave the store unchanged. *)
C10_ValidationMessage ==
    /\ BadPhoneCall => (reply = PhoneError /\ book = prevBook)
    /\ BadBirthdayCall => (reply = BirthdayError /\ book = prevBook)

(* C10 amended: add_contact with a phone that is not 10 digits returns the
   validation message; add_birthday with a string that is no valid date
   returns the validation message when the name is in the store and
   "Contact <name> not found." when it is not; in every case the store is
   unchanged. *)
C10_ValidationKeepsStore ==
    /\ BadPhoneCall => (reply = PhoneError /\ book = prevBook)
    /\ BadBirthdayCall =>
         /\ book = prevBook
         /\ reply = IF IndexOf(prevBook, call.args[1].v) = 0
                    THEN <<"Contact ">> \o call.args[1].v \o <<" not found.">>
                    ELSE BirthdayError

\* add_birthday rejected a date for a contact that already had a birthday
C10_Witness ==
    /\ BadBirthdayCall
    /\ reply = BirthdayError
    /\ IndexOf(prevBook, call.args[1].v) # 0
    /\ RecordOf(prevBook, call.args[1].v).birthday # None
    /\ RecordOf(book, call.args[1].v).phones # <<>>

====
